---- MODULE Spec2Model ----
(***************************************************************************)
(* The background download pipeline of vretro: gui/util/downloads.py,      *)
(* class DownloadManager.  One dispatcher thread (_worker_loop), one       *)
(* executor thread per dispatch (_process_download), and the caller side   *)
(* (queue_download, cancel_download, clear_completed) run without any      *)
(* lock, so every read and every write of a shared attribute is a step of  *)
(* its own.  Progress is counted in tenths: 2 stands for 0.2, 10 for 1.0.  *)
(*                                                                         *)
(* Two parts of the code are given at two grains.  _notify_callbacks is    *)
(* one step with the write before it (NotifyCallbacks) in the              *)
(* specifications about the pipeline, and its comparison and its           *)
(* assignment are steps of their own (the ...NotifyCompare and             *)
(* ...NotifyFanOut actions) in SpecNotify.  The dispatcher's scan of the   *)
(* store is one step (DispScan) where no other thread resizes the dict     *)
(* during it, and the steps of the dict iterator (DispIter...) in          *)
(* SpecScan.                                                               *)
(***************************************************************************)
EXTENDS Integers, Sequences, FiniteSets, Bags, TLC

\* ------------------------------------------------------------------ bounds
\* number of queue_download calls explored
MaxTasks == 1
\* number of executor threads alive at once that the model explores
MaxExec == 2
\* the same two bounds for the worker pool explored alone
PoolTasks == 2
PoolExec == 4
\* and for the worker pool under fair scheduling
LiveTasks == 2
LiveExec == 3
\* and for the store cleared while the pipeline runs
ClearTasks == 2
ClearExec == 1
\* and for the notifier
NotifyTasks == 2
NotifyExec == 1
\* and for queue_download called with every combination of its arguments
QueueTasks == 2
QueueExec == 1
\* and for the dispatcher's scan taken step by step
ScanTasks == 2
ScanExec == 1
\* and for downloads for the console that needs unpacking
SwitchTasks == 2
SwitchExec == 1
\* and for the metadata stage run with every kind of catalog hint
MetaTasks == 1
MetaExec == 2

\* -------------------------------------------------------- program constants
max_concurrent == 3

QUEUED == "queued"
DOWNLOADING == "downloading"
EXTRACTING == "extracting"
METADATA == "creating metadata"
ARTWORK == "downloading artwork"
COMPLETE == "complete"
FAILED == "failed"

DownloadStatus == {QUEUED, DOWNLOADING, EXTRACTING, METADATA, ARTWORK, COMPLETE, FAILED}

\* Optional[str] error: None
None == "None"

\* console codes handed to queue_download; "nes" is given in lower case
ConsoleInputs == {"nes", "XX"}

\* str.upper() on the console codes in use
Upper(c) ==
    CASE c = "nes" -> "NES"
      [] c = "switch" -> "SWITCH"
      [] OTHER -> c

\* library.consoles: the console registry loaded from disk
Registry == {"NES", "SWITCH"}

get_console_metadata(code) == IF Upper(code) \in Registry THEN Upper(code) ELSE None

\* CONSOLE_EXTENSIONS.get(code, "bin")
CONSOLE_EXTENSIONS(code) ==
    CASE code = "NES" -> "nes"
      [] code = "SWITCH" -> "nsp"
      [] code = "ARCADE" -> "zip"
      [] OTHER -> "bin"

\* dest_file = download_dir / f"base.{extension}"; dest_file.suffix
DestSuffix(code) == "." \o CONSOLE_EXTENSIONS(code)

\* line 197: the EXTRACTING stage is entered for these downloads only
NeedsExtract(code) == code = "SWITCH" /\ DestSuffix(code) = ".zip"

\* lines 174-175: the name in lower case, every character that is not a word
\* character, white space or a hyphen dropped, runs of hyphens and white space
\* made one hyphen, hyphens at the ends stripped; on the names in use
game_slug(game_name) ==
    CASE game_name = "Zelda" -> "zelda"
      [] game_name = "Metroid" -> "metroid"
      [] game_name = "Zelda!" -> "zelda"
      [] game_name = "Super Metroid" -> "super-metroid"

\* lines 171-177: console_root / console_meta.name / "games" / game_slug
game_dir(console, game_name) == <<get_console_metadata(console), "games", game_slug(game_name)>>

VARIABLES
    tasks,            \* self.tasks: the ids in the dict, in insertion order
    rec,              \* the DownloadTask objects, by id (kept after removal)
    active_downloads, \* self.active_downloads
    disp,             \* the dispatcher thread: [pc, task, tmp]
    execs,            \* the running _process_download threads: a bag of records
    cancel,           \* a cancel_download call in progress: [pc, id, seen]
    clear,            \* a clear_completed call in progress: [pc, to_remove]
    steamgrid,        \* self.steamgrid: "absent", "nokey" or "key"
    notify_open,      \* time.time() - self._last_notify >= self._notify_throttle
    metafile,         \* metadata.json written, by task id: number of saves
    starts,           \* history: executors started, by task id
    cancelled_queued, \* history: ids whose cancel_download call found QUEUED and returned
    bound,            \* the bounds of the exploration: [tasks, execs]
    fanout,           \* history: the latest fan-out: [recent, statuses, invoked, raised]
    queue,            \* a queue_download call in progress: [pc, stale]
    iter,             \* the dict iterator of the dispatcher's scan: [pos, used, cur]
    metadata_json     \* history: the records saved to metadata.json, by task id

vars == <<tasks, rec, active_downloads, disp, execs, cancel, clear, steamgrid,
          notify_open, metafile, starts, cancelled_queued, bound, fanout, queue, iter,
          metadata_json>>

Ids == DOMAIN rec

\* the store as get_all_tasks returns it
InStore(id) == \E i \in 1..Len(tasks) : tasks[i] = id

Running == BagToSet(execs)

RunningCount == BagCardinality(execs)

RunningFor(id) == BagCardinality([r \in {x \in Running : x.task = id} |-> execs[r]])

Replace(r, r2) == (execs (-) SetToBag({r})) (+) SetToBag({r2})

\* no scan of the store is under way
NoIter == [pos |-> 0, used |-> 0, cur |-> 0]

\* no fan-out has happened yet
NoFanOut == [recent |-> FALSE, statuses |-> <<>>, invoked |-> {}, raised |-> {}]

Init ==
    /\ tasks = <<>>
    /\ rec = <<>>
    /\ active_downloads = 0
    /\ disp = [pc |-> "sleep", task |-> 0, tmp |-> 0]
    /\ execs = EmptyBag
    /\ cancel = [pc |-> "idle", id |-> 0, seen |-> None]
    /\ clear = [pc |-> "idle", to_remove |-> <<>>]
    /\ steamgrid \in {"absent", "nokey", "key"}
    /\ notify_open = TRUE
    /\ metafile = <<>>
    /\ starts = <<>>
    /\ cancelled_queued = {}
    /\ bound = [tasks |-> MaxTasks, execs |-> MaxExec]
    /\ fanout = NoFanOut
    /\ queue = [pc |-> "idle", stale |-> FALSE]
    /\ iter = NoIter
    /\ metadata_json = <<>>

\* ------------------------------------------------------------- the notifier
\* Time is counted in throttle intervals: a Tick is 0.5 s going by, and
\* notify_open says that current time - _last_notify >= _notify_throttle.

\* self.callbacks: the observers the application subscribes (gui/app.py line
\* 65, gui/elements/downloads.py line 15)
callbacks == <<"app", "panel">>

\* the loop with the try/except left out: the first raising observer ends it
RECURSIVE Deliver_NoHandler(_, _)
Deliver_NoHandler(cbs, raising) ==
    IF cbs = <<>> THEN [invoked |-> {}, escaped |-> FALSE]
    ELSE IF Head(cbs) \in raising THEN [invoked |-> {Head(cbs)}, escaped |-> TRUE]
    ELSE LET rest == Deliver_NoHandler(Tail(cbs), raising) IN
         [invoked |-> {Head(cbs)} \cup rest.invoked, escaped |-> rest.escaped]

\* lines 67-71: for callback in self.callbacks: try: callback() except
\* Exception: pass.  `raising` are the observers that raise; after a normal
\* return and after the `pass` alike the loop goes on to the next observer.
RECURSIVE Deliver(_, _)
Deliver(cbs, raising) ==
    IF cbs = <<>> THEN [invoked |-> {}, escaped |-> FALSE]
    ELSE LET rest == Deliver(Tail(cbs), raising) IN
         [invoked |-> {Head(cbs)} \cup rest.invoked, escaped |-> rest.escaped]

\* what get_all_tasks shows an observer: the status of every record of the store
Snapshot(store, records) ==
    [i \in DOMAIN records |->
        IF \E k \in 1..Len(store) : store[k] = i THEN records[i].status ELSE None]

\* lines 66-71: self._last_notify = current_time, then the loop.  current_time
\* was read at line 62: when 0.5 s have gone by since (stale), the window the
\* assignment leaves behind is already over.
FanOut(stale, raising) ==
    /\ notify_open' = stale
    /\ fanout' = [recent |-> TRUE, statuses |-> Snapshot(tasks', rec'),
                  invoked |-> Deliver(callbacks, raising).invoked, raised |-> raising]

\* _notify_callbacks run in one step by observers that return normally: inside
\* the throttle window it returns, outside it it fans out.
NotifyCallbacks ==
    IF notify_open THEN FanOut(FALSE, {}) ELSE UNCHANGED <<notify_open, fanout>>

\* the observers as a set
Observers == {callbacks[i] : i \in 1..Len(callbacks)}

\* gui/app.py _on_settings_saved: the key of the artwork provider is replaced
SettingsSaved ==
    /\ steamgrid # "absent"
    /\ steamgrid' = IF steamgrid = "key" THEN "nokey" ELSE "key"
    /\ UNCHANGED <<tasks, rec, active_downloads, disp, execs, cancel, clear,
                   notify_open, metafile, metadata_json, starts, cancelled_queued,
                   bound, fanout, queue, iter>>

\* ------------------------------------------------------------ queue_download
\* a record built without the catalog hint
NewTask_DropsHint(game_name, console, source, igdb_game) ==
    [status |-> QUEUED, progress |-> 0, error |-> None, game_name |-> game_name,
     console |-> console, source |-> source, igdb_game |-> None]

\* lines 78-86: DownloadTask(...), error left at its default
NewTask(game_name, console, source, igdb_game) ==
    [status |-> QUEUED, progress |-> 0, error |-> None, game_name |-> game_name,
     console |-> console, source |-> source, igdb_game |-> igdb_game]

\* line 76: str(uuid4()), an id no record has had
NewId == Cardinality(Ids) + 1

\* lines 76-88: the record is built and stored under the new id
Insert(game_name, console, source, igdb_game) ==
    /\ Cardinality(Ids) < bound.tasks
    /\ rec' = Append(rec, NewTask(game_name, console, source, igdb_game))
    /\ tasks' = Append(tasks, NewId)
    /\ metafile' = Append(metafile, 0)
    /\ metadata_json' = Append(metadata_json, <<>>)
    /\ starts' = Append(starts, 0)

QueueDownload(game_name, console, source, igdb_game) ==
    /\ queue.pc = "idle"
    /\ Insert(game_name, console, source, igdb_game)
    /\ NotifyCallbacks
    /\ UNCHANGED <<active_downloads, disp, execs, cancel, clear, steamgrid,
                   cancelled_queued, bound, queue, iter>>

\* queue_download with _notify_callbacks as the steps it is made of.
\* lines 76-88
QueueInsert(game_name, console, source, igdb_game) ==
    /\ queue.pc = "idle"
    /\ Insert(game_name, console, source, igdb_game)
    /\ queue' = [pc |-> "compare", stale |-> FALSE]
    /\ UNCHANGED <<active_downloads, disp, execs, cancel, clear, steamgrid,
                   notify_open, cancelled_queued, bound, fanout, iter>>

\* lines 62-64: current_time is read and compared with _last_notify
QueueNotifyCompare ==
    /\ queue.pc = "compare"
    /\ queue' = [pc |-> IF notify_open THEN "fanout" ELSE "idle", stale |-> FALSE]
    /\ UNCHANGED <<tasks, rec, active_downloads, disp, execs, cancel, clear, steamgrid,
                   notify_open, metafile, metadata_json, starts, cancelled_queued,
                   bound, fanout, iter>>

\* lines 66-71, then `return task_id`; an exception leaving the loop would
\* leave queue_download too
QueueNotifyFanOut(raising) ==
    /\ queue.pc = "fanout"
    /\ UNCHANGED <<tasks, rec, active_downloads, disp, execs, cancel, clear, steamgrid,
                   metafile, metadata_json, starts, cancelled_queued, bound, iter>>
    /\ FanOut(queue.stale, raising)
    /\ queue' = [pc |-> IF Deliver(callbacks, raising).escaped THEN "raised" ELSE "idle",
                 stale |-> FALSE]

\* ----------------------------------------------------------- cancel_download
\* lines 114-116: the membership test and the read of task.status
CancelWrites(id) == InStore(id) /\ rec[id].status # COMPLETE

CancelCheck(id) ==
    /\ cancel.pc = "idle"
    /\ IF CancelWrites(id)
       THEN cancel' = [pc |-> "status", id |-> id, seen |-> rec[id].status]
       ELSE UNCHANGED cancel
    /\ UNCHANGED <<tasks, rec, active_downloads, disp, execs, clear, steamgrid,
                   notify_open, metafile, metadata_json, starts, cancelled_queued,
                   bound, fanout, queue, iter>>

\* line 117: task.status = DownloadStatus.FAILED
CancelStatus ==
    /\ cancel.pc = "status"
    /\ rec' = [rec EXCEPT ![cancel.id].status = FAILED]
    /\ cancel' = [cancel EXCEPT !.pc = "error"]
    /\ UNCHANGED <<tasks, active_downloads, disp, execs, clear, steamgrid,
                   notify_open, metafile, metadata_json, starts, cancelled_queued,
                   bound, fanout, queue, iter>>

\* lines 118-119: task.error = "cancelled by user"; self._notify_callbacks()
CancelError ==
    /\ cancel.pc = "error"
    /\ rec' = [rec EXCEPT ![cancel.id].error = "cancelled by user"]
    /\ cancel' = [pc |-> "idle", id |-> 0, seen |-> None]
    /\ cancelled_queued' = IF cancel.seen = QUEUED
                           THEN cancelled_queued \cup {cancel.id} ELSE cancelled_queued
    /\ UNCHANGED <<tasks, active_downloads, disp, execs, clear, steamgrid,
                   metafile, metadata_json, starts, bound, queue, iter>>
    /\ NotifyCallbacks

\* ----------------------------------------------------------- clear_completed
\* lines 122-126: the ids whose status is COMPLETE or FAILED, in store order
to_remove(store) == SelectSeq(store, LAMBDA id : rec[id].status \in {COMPLETE, FAILED})

ToRemove == to_remove(tasks)

\* line 129: del self.tasks[tid]
Delete(store, tid) == SelectSeq(store, LAMBDA id : id # tid)

\* lines 128-129: for tid in to_remove: del self.tasks[tid]
RECURSIVE DeleteEach(_, _)
DeleteEach(store, ids) ==
    IF ids = <<>> THEN store ELSE DeleteEach(Delete(store, Head(ids)), Tail(ids))

\* a clear_completed that stops after its first deletion
clear_completed_FirstOnly(store) ==
    IF to_remove(store) = <<>> THEN store ELSE Delete(store, Head(to_remove(store)))

\* the store a clear_completed call leaves when no other thread takes a step
\* during it
clear_completed(store) == DeleteEach(store, to_remove(store))

\* lines 99-111: the records whose status is one of the five listed
get_active_tasks(store) ==
    SelectSeq(store, LAMBDA id : rec[id].status \in
                         {QUEUED, DOWNLOADING, EXTRACTING, METADATA, ARTWORK})

ClearScan ==
    /\ clear.pc = "idle"
    /\ clear' = [pc |-> "delete", to_remove |-> ToRemove]
    /\ UNCHANGED <<tasks, rec, active_downloads, disp, execs, cancel, steamgrid,
                   notify_open, metafile, metadata_json, starts, cancelled_queued,
                   bound, fanout, queue, iter>>

\* lines 128-131: del self.tasks[tid] for each id of the list, then the notify
ClearDelete ==
    /\ clear.pc = "delete"
    /\ UNCHANGED <<rec, active_downloads, disp, execs, cancel, steamgrid,
                   metafile, metadata_json, starts, cancelled_queued, bound, queue, iter>>
    /\ IF clear.to_remove = <<>>
       THEN /\ clear' = [pc |-> "idle", to_remove |-> <<>>]
            /\ UNCHANGED tasks
            /\ NotifyCallbacks
       ELSE /\ tasks' = Delete(tasks, Head(clear.to_remove))
            /\ clear' = [clear EXCEPT !.to_remove = Tail(clear.to_remove)]
            /\ UNCHANGED <<notify_open, fanout>>

\* ------------------------------------------------------------- _worker_loop
\* lines 140-142: the tasks of the store whose status is QUEUED, in store order
QueuedTasks == SelectSeq(tasks, LAMBDA id : rec[id].status = QUEUED)

\* lines 135-138: the sleep is over; the ceiling test reads active_downloads
DispCheck ==
    /\ disp.pc = "sleep"
    /\ disp' = [disp EXCEPT !.pc = IF active_downloads >= max_concurrent
                                   THEN "sleep" ELSE "scan"]
    /\ UNCHANGED <<tasks, rec, active_downloads, execs, cancel, clear, steamgrid,
                   notify_open, metafile, metadata_json, starts, cancelled_queued,
                   bound, fanout, queue, iter>>

\* a dispatcher that takes the task enqueued last
Oldest_Newest(queued) == queued[Len(queued)]

\* line 147: task = queued[0]; a dict lists its values in insertion order
Oldest(queued) == Head(queued)

\* lines 140-147: the scan of the store when no other thread changes the store
\* during it; task = queued[0]
DispScan ==
    /\ disp.pc = "scan"
    /\ disp' = IF QueuedTasks = <<>>
               THEN [disp EXCEPT !.pc = "sleep"]
               ELSE [disp EXCEPT !.pc = "inc_read", !.task = Oldest(QueuedTasks)]
    /\ UNCHANGED <<tasks, rec, active_downloads, execs, cancel, clear, steamgrid,
                   notify_open, metafile, metadata_json, starts, cancelled_queued,
                   bound, fanout, queue, iter>>

\* The scan of lines 140-142 as the steps the interpreter takes: the iterator
\* of self.tasks.values() remembers the size of the dict when it is created,
\* and every step of it compares that size with the size the dict has now.
\* disp.task is the head of the list built so far, or 0.
DispIterStart ==
    /\ disp.pc = "scan"
    /\ iter' = [pos |-> 0, used |-> Len(tasks), cur |-> 0]
    /\ disp' = [disp EXCEPT !.pc = "iter", !.task = 0]
    /\ UNCHANGED <<tasks, rec, active_downloads, execs, cancel, clear, steamgrid,
                   notify_open, metafile, metadata_json, starts, cancelled_queued,
                   bound, fanout, queue>>

\* where a step of the iterator leaves the dispatcher: "dictionary changed size
\* during iteration" is a RuntimeError that nothing in _worker_loop catches, so
\* the thread ends; at the end of the dict, lines 144-147
AfterNext(size, it, head) ==
    IF size # it.used THEN "dead"
    ELSE IF it.pos < size THEN "iter"
    ELSE IF head = 0 THEN "sleep" ELSE "inc_read"

\* one step of the iterator: the size test, then the next record or the end
DispIterNext ==
    /\ disp.pc = "iter" /\ iter.cur = 0
    /\ LET to == AfterNext(Len(tasks), iter, disp.task) IN
        /\ disp' = [disp EXCEPT !.pc = to]
        /\ iter' = IF to = "iter"
                   THEN [iter EXCEPT !.pos = @ + 1, !.cur = tasks[iter.pos + 1]]
                   ELSE NoIter
    /\ UNCHANGED <<tasks, rec, active_downloads, execs, cancel, clear, steamgrid,
                   notify_open, metafile, metadata_json, starts, cancelled_queued,
                   bound, fanout, queue>>

\* line 141: if t.status == DownloadStatus.QUEUED, for the record just fetched
DispIterTest ==
    /\ disp.pc = "iter" /\ iter.cur # 0
    /\ disp' = [disp EXCEPT !.task = IF rec[iter.cur].status = QUEUED /\ disp.task = 0
                                     THEN iter.cur ELSE @]
    /\ iter' = [iter EXCEPT !.cur = 0]
    /\ UNCHANGED <<tasks, rec, active_downloads, execs, cancel, clear, steamgrid,
                   notify_open, metafile, metadata_json, starts, cancelled_queued,
                   bound, fanout, queue>>

\* line 148, first half: the load of self.active_downloads
DispIncRead ==
    /\ disp.pc = "inc_read"
    /\ disp' = [disp EXCEPT !.pc = "inc_write", !.tmp = active_downloads]
    /\ UNCHANGED <<tasks, rec, active_downloads, execs, cancel, clear, steamgrid,
                   notify_open, metafile, metadata_json, starts, cancelled_queued,
                   bound, fanout, queue, iter>>

\* line 148, second half: the store of the loaded value plus one
DispIncWrite ==
    /\ disp.pc = "inc_write"
    /\ active_downloads' = disp.tmp + 1
    /\ disp' = [disp EXCEPT !.pc = "start", !.tmp = 0]
    /\ UNCHANGED <<tasks, rec, execs, cancel, clear, steamgrid,
                   notify_open, metafile, metadata_json, starts, cancelled_queued,
                   bound, fanout, queue, iter>>

\* a thread as threading.Thread(target=self._process_download) starts it
NewExecutor(id) ==
    [task |-> id, pc |-> "begin", tmp |-> 0, exc |-> None]

\* lines 150-153: download_thread.start()
DispStart ==
    /\ disp.pc = "start"
    /\ RunningCount < bound.execs
    /\ execs' = execs (+) SetToBag({NewExecutor(disp.task)})
    /\ starts' = [starts EXCEPT ![disp.task] = @ + 1]
    /\ disp' = [pc |-> "sleep", task |-> 0, tmp |-> 0]
    /\ UNCHANGED <<tasks, rec, active_downloads, cancel, clear, steamgrid,
                   notify_open, metafile, metadata_json, cancelled_queued,
                   bound, fanout, queue, iter>>

\* -------------------------------------------------------- _process_download
\* The executor's position is the next statement that touches shared state:
\*   begin                       lines 162-185  registry lookup, mkdir
\*   nf_status, nf_error         lines 166-169  console not found
\*   dl_status, dl_progress      line 187       _update_task(DOWNLOADING, 0.2)
\*   download                    lines 189-197  sources.download_file
\*   df_status, df_error         lines 192-195  download failed
\*   ex_status, ex_progress      line 198       _update_task(EXTRACTING, 0.4)
\*   extract                     line 200       _extract_switch_game
\*   xf_status, xf_error         lines 201-204  extraction failed
\*   md_status, md_progress      line 206       _update_task(METADATA, 0.6)
\*   md_save                     lines 208-226  metadata.save, artwork guard
\*   art_status, art_progress    line 228       _update_task(ARTWORK, 0.8)
\*   art_fetch                   lines 230-254  the artwork provider calls
\*   co_status, co_progress      line 256       _update_task(COMPLETE, 1.0)
\*   exc_status, exc_error       lines 258-261  except Exception as e
\*   dec_read, dec_write         line 263       self.active_downloads -= 1
\* and, where _notify_callbacks is taken step by step, for each call site xx:
\*   xx_compare                  lines 62-64    the throttle test
\*   xx_fanout, xx_late          lines 66-71    the assignment and the loop

\* the status each `task.status = ...` statement writes
StatusWritten(pc) ==
    CASE pc = "dl_status" -> DOWNLOADING
      [] pc = "ex_status" -> EXTRACTING
      [] pc = "md_status" -> METADATA
      [] pc = "art_status" -> ARTWORK
      [] pc = "co_status" -> COMPLETE
      [] pc \in {"nf_status", "df_status", "xf_status", "exc_status"} -> FAILED

StatusPcs == {"dl_status", "ex_status", "md_status", "art_status", "co_status",
              "nf_status", "df_status", "xf_status", "exc_status"}

\* the statement that follows each status write
AfterStatus(pc) ==
    CASE pc = "dl_status" -> "dl_progress"
      [] pc = "ex_status" -> "ex_progress"
      [] pc = "md_status" -> "md_progress"
      [] pc = "art_status" -> "art_progress"
      [] pc = "co_status" -> "co_progress"
      [] pc = "nf_status" -> "nf_error"
      [] pc = "df_status" -> "df_error"
      [] pc = "xf_status" -> "xf_error"
      [] pc = "exc_status" -> "exc_error"

\* the progress marker each _update_task call writes, in tenths
ProgressWritten(pc) ==
    CASE pc = "dl_progress" -> 2
      [] pc = "ex_progress" -> 4
      [] pc = "md_progress" -> 6
      [] pc = "art_progress" -> 8
      [] pc = "co_progress" -> 10

ProgressPcs == {"dl_progress", "ex_progress", "md_progress", "art_progress", "co_progress"}

\* _update_task(METADATA, 0.6) followed at once by _update_task(COMPLETE, 1.0):
\* the metadata write left out
AfterProgress_SkipsSave(pc) ==
    CASE pc = "dl_progress" -> "download"
      [] pc = "ex_progress" -> "extract"
      [] pc = "md_progress" -> "co_status"
      [] pc = "art_progress" -> "art_fetch"
      [] pc = "co_progress" -> "dec_read"

\* the statement that follows each _update_task call
AfterProgress(pc) ==
    CASE pc = "dl_progress" -> "download"
      [] pc = "ex_progress" -> "extract"
      [] pc = "md_progress" -> "md_save"
      [] pc = "art_progress" -> "art_fetch"
      [] pc = "co_progress" -> "dec_read"

\* the error each `task.error = ...` statement writes
ErrorWritten(r) ==
    CASE r.pc = "nf_error" -> "console not found"
      [] r.pc = "df_error" -> "download failed"
      [] r.pc = "xf_error" -> "extraction failed"
      [] r.pc = "exc_error" -> r.exc

ErrorPcs == {"nf_error", "df_error", "xf_error", "exc_error"}

\* a `return` that leaves the function at once, skipping the finally clause
AfterError_ReturnSkipsFinally(pc) == IF pc = "exc_error" THEN "dec_read" ELSE "returned"

\* lines 169, 195, 204: `return` inside the try block, and line 261, the end
\* of the handler: both go through the finally clause of line 262
AfterError(pc) == "dec_read"

\* the directories created before the registry is looked at
BeginTarget_MkdirFirst(console, mkdir_ok) ==
    IF ~mkdir_ok THEN "exc_status"
    ELSE IF get_console_metadata(console) = None THEN "nf_status" ELSE "dl_status"

\* lines 162-185: get_console_metadata, then the mkdir calls, which may raise
BeginTarget(console, mkdir_ok) ==
    IF get_console_metadata(console) = None THEN "nf_status"
    ELSE IF mkdir_ok THEN "dl_status" ELSE "exc_status"

ExecBegin(r, mkdir_ok) ==
    /\ r.pc = "begin"
    /\ LET to == BeginTarget(rec[r.task].console, mkdir_ok) IN
        execs' = Replace(r, [r EXCEPT !.pc = to,
                                      !.exc = IF to = "exc_status" THEN "mkdir failed" ELSE None])
    /\ UNCHANGED <<tasks, rec, active_downloads, disp, cancel, clear, steamgrid,
                   notify_open, metafile, metadata_json, starts, cancelled_queued,
                   bound, fanout, queue, iter>>

\* every `task.status = ...` of the executor (lines 156, 166, 192, 201, 259)
ExecSetStatus(r) ==
    /\ r.pc \in StatusPcs
    /\ rec' = [rec EXCEPT ![r.task].status = StatusWritten(r.pc)]
    /\ execs' = Replace(r, [r EXCEPT !.pc = AfterStatus(r.pc)])
    /\ UNCHANGED <<tasks, active_downloads, disp, cancel, clear, steamgrid,
                   notify_open, metafile, metadata_json, starts, cancelled_queued,
                   bound, fanout, queue, iter>>

\* lines 157-158: task.progress = progress; self._notify_callbacks()
ExecSetProgress(r) ==
    /\ r.pc \in ProgressPcs
    /\ rec' = [rec EXCEPT ![r.task].progress = ProgressWritten(r.pc)]
    /\ execs' = Replace(r, [r EXCEPT !.pc = AfterProgress(r.pc)])
    /\ UNCHANGED <<tasks, active_downloads, disp, cancel, clear, steamgrid,
                   metafile, metadata_json, starts, cancelled_queued, bound, queue, iter>>
    /\ NotifyCallbacks

\* task.error = ...; self._notify_callbacks(); return (lines 167-169, 193-195,
\* 202-204, 260-261)
ExecSetError(r) ==
    /\ r.pc \in ErrorPcs
    /\ rec' = [rec EXCEPT ![r.task].error = ErrorWritten(r)]
    /\ execs' = Replace(r, [r EXCEPT !.pc = AfterError(r.pc), !.exc = None])
    /\ UNCHANGED <<tasks, active_downloads, disp, cancel, clear, steamgrid,
                   metafile, metadata_json, starts, cancelled_queued, bound, queue, iter>>
    /\ NotifyCallbacks

\* lines 189-204: what follows download_file and _extract_switch_game
AfterTransfer(pc, code, ok) ==
    IF pc = "download"
    THEN IF ~ok THEN "df_status"
         ELSE IF NeedsExtract(code) THEN "ex_status" ELSE "md_status"
    ELSE IF ok THEN "md_status" ELSE "xf_status"

\* sources.download_file and _extract_switch_game: both return a bool and
\* catch every exception themselves
ExecTransfer(r, ok) ==
    /\ r.pc \in {"download", "extract"}
    /\ execs' = Replace(r, [r EXCEPT !.pc = AfterTransfer(r.pc, Upper(rec[r.task].console), ok)])
    /\ UNCHANGED <<tasks, rec, active_downloads, disp, cancel, clear, steamgrid,
                   notify_open, metafile, metadata_json, starts, cancelled_queued,
                   bound, fanout, queue, iter>>

\* str.lower() on the console codes in use
Lower(code) ==
    CASE code = "NES" -> "nes"
      [] code = "SWITCH" -> "switch"
      [] code = "XX" -> "xx"

\* Optional[int] year: None
NoYear == -1

\* the catalog entries a hint can be (database.py, class OnlineGame): one with
\* every field, one whose publisher and year are None, one whose publisher is
\* the empty string and whose year is 0
OnlineGame(hint) ==
    CASE hint = "igdb" ->
             [id |-> 1025, name |-> "The Legend of Zelda", publisher |-> "Nintendo",
              year |-> 1986]
      [] hint = "igdb_bare" ->
             [id |-> 1026, name |-> "Zelda II", publisher |-> None, year |-> NoYear]
      [] hint = "igdb_empty" ->
             [id |-> 1027, name |-> "Zelda III", publisher |-> "", year |-> 0]

\* lines 221-222: `x or default` on the two optional fields
PublisherOr(publisher) == IF publisher \in {None, ""} THEN "unknown" ELSE publisher

YearOr(year) == IF year \in {NoYear, 0} THEN 0 ELSE year

\* lines 208-216: the record built from the task alone
Placeholder(task) ==
    [code |-> Lower(Upper(task.console)) \o "-" \o game_slug(task.game_name),
     console |-> Upper(task.console), id |-> 0, title |-> task.game_name,
     publisher |-> "unknown", year |-> 0, region |-> "NA"]

\* a metadata stage that never looks at the catalog hint
GameMetadata_IgnoresHint(task) == Placeholder(task)

\* lines 208-222: the record as metadata.save receives it
GameMetadata(task) ==
    IF task.igdb_game # None
    THEN [Placeholder(task) EXCEPT !.id = OnlineGame(task.igdb_game).id,
                                   !.title = OnlineGame(task.igdb_game).name,
                                   !.publisher = PublisherOr(OnlineGame(task.igdb_game).publisher),
                                   !.year = YearOr(OnlineGame(task.igdb_game).year)]
    ELSE Placeholder(task)

\* the guard with the api_key test forgotten
ArtworkGuard_AnyProvider(sg) == sg # "absent"

\* line 226: if self.steamgrid and self.steamgrid.api_key
ArtworkGuard(sg) == sg = "key"

\* lines 208-226: metadata.save may raise; then the artwork guard is read
AfterSave(save_ok, sg) ==
    IF ~save_ok THEN "exc_status"
    ELSE IF ArtworkGuard(sg) THEN "art_status" ELSE "co_status"

ExecSaveMetadata(r, save_ok) ==
    /\ r.pc = "md_save"
    /\ metafile' = [metafile EXCEPT ![r.task] = IF save_ok THEN @ + 1 ELSE @]
    /\ metadata_json' = [metadata_json EXCEPT ![r.task] =
                             IF save_ok THEN Append(@, GameMetadata(rec[r.task])) ELSE @]
    /\ LET to == AfterSave(save_ok, steamgrid) IN
        execs' = Replace(r, [r EXCEPT !.pc = to,
                                      !.exc = IF to = "exc_status" THEN "save failed" ELSE None])
    /\ UNCHANGED <<tasks, rec, active_downloads, disp, cancel, clear, steamgrid,
                   notify_open, starts, cancelled_queued, bound, fanout, queue, iter>>

\* what the artwork stage can meet: an exception of graphics_dir.mkdir or of a
\* provider call, an empty search, an asset download returning False, success
ArtOutcomes == {"raise", "empty", "false", "ok"}

\* the artwork stage without its own try/except: an exception reaches the
\* handler of line 258
AfterArtwork_RaiseFails(outcome) == IF outcome = "raise" THEN "exc_status" ELSE "co_status"

\* lines 253-256: `except Exception: pass`, then _update_task(COMPLETE, 1.0)
AfterArtwork(outcome) == "co_status"

ExecArtwork(r, outcome) ==
    /\ r.pc = "art_fetch"
    /\ execs' = Replace(r, [r EXCEPT !.pc = AfterArtwork(outcome)])
    /\ UNCHANGED <<tasks, rec, active_downloads, disp, cancel, clear, steamgrid,
                   notify_open, metafile, metadata_json, starts, cancelled_queued,
                   bound, fanout, queue, iter>>

\* line 263, first half: the load of self.active_downloads
ExecDecRead(r) ==
    /\ r.pc = "dec_read"
    /\ execs' = Replace(r, [r EXCEPT !.pc = "dec_write", !.tmp = active_downloads])
    /\ UNCHANGED <<tasks, rec, active_downloads, disp, cancel, clear, steamgrid,
                   notify_open, metafile, metadata_json, starts, cancelled_queued,
                   bound, fanout, queue, iter>>

\* line 263, second half: the store of the loaded value minus one; the thread ends
ExecDecWrite(r) ==
    /\ r.pc = "dec_write"
    /\ active_downloads' = r.tmp - 1
    /\ execs' = execs (-) SetToBag({r})
    /\ UNCHANGED <<tasks, rec, disp, cancel, clear, steamgrid,
                   notify_open, metafile, metadata_json, starts, cancelled_queued,
                   bound, fanout, queue, iter>>

\* _update_task and the failure paths with _notify_callbacks as the steps it
\* is made of.  The call sites, by the prefix of their positions:
Sites == {"dl", "ex", "md", "art", "co", "nf", "df", "xf", "exc"}

Site(pc) ==
    CHOOSE st \in Sites : pc \in {st \o "_progress", st \o "_error", st \o "_compare",
                                   st \o "_fanout", st \o "_late"}

\* at line 62-63, at line 66, and at line 66 with current_time 0.5 s old
ComparePcs == {st \o "_compare" : st \in Sites}

FanoutPcs == {st \o "_fanout" : st \in Sites}

LatePcs == {st \o "_late" : st \in Sites}

\* where the executor goes on when _notify_callbacks returns
AfterNotify(pc) ==
    IF Site(pc) \in {"nf", "df", "xf", "exc"} THEN AfterError(Site(pc) \o "_error")
    ELSE AfterProgress(Site(pc) \o "_progress")

\* where an exception leaving _notify_callbacks would take the executor: to the
\* handler of line 258, or from inside that handler to the finally clause
AfterEscape(pc) == IF Site(pc) = "exc" THEN "dec_read" ELSE "exc_status"

\* line 157: task.progress = progress
ExecWriteProgress(r) ==
    /\ r.pc \in ProgressPcs
    /\ rec' = [rec EXCEPT ![r.task].progress = ProgressWritten(r.pc)]
    /\ execs' = Replace(r, [r EXCEPT !.pc = Site(r.pc) \o "_compare"])
    /\ UNCHANGED <<tasks, active_downloads, disp, cancel, clear, steamgrid, notify_open,
                   metafile, metadata_json, starts, cancelled_queued, bound, fanout, queue, iter>>

\* lines 167, 193, 202, 260: task.error = ...
ExecWriteError(r) ==
    /\ r.pc \in ErrorPcs
    /\ rec' = [rec EXCEPT ![r.task].error = ErrorWritten(r)]
    /\ execs' = Replace(r, [r EXCEPT !.pc = Site(r.pc) \o "_compare", !.exc = None])
    /\ UNCHANGED <<tasks, active_downloads, disp, cancel, clear, steamgrid, notify_open,
                   metafile, metadata_json, starts, cancelled_queued, bound, fanout, queue, iter>>

\* lines 62-64: current_time is read and compared with _last_notify
ExecNotifyCompare(r) ==
    /\ r.pc \in ComparePcs
    /\ execs' = Replace(r, [r EXCEPT !.pc = IF notify_open THEN Site(r.pc) \o "_fanout"
                                                          ELSE AfterNotify(r.pc)])
    /\ UNCHANGED <<tasks, rec, active_downloads, disp, cancel, clear, steamgrid, notify_open,
                   metafile, metadata_json, starts, cancelled_queued, bound, fanout, queue, iter>>

\* lines 66-71: _last_notify = current_time and the loop over the observers
ExecNotifyFanOut(r, raising) ==
    /\ r.pc \in FanoutPcs \cup LatePcs
    /\ UNCHANGED <<tasks, rec, active_downloads, disp, cancel, clear, steamgrid,
                   metafile, metadata_json, starts, cancelled_queued, bound, queue, iter>>
    /\ FanOut(r.pc \in LatePcs, raising)
    /\ LET esc == Deliver(callbacks, raising).escaped IN
        execs' = Replace(r, [r EXCEPT !.pc = IF esc THEN AfterEscape(r.pc) ELSE AfterNotify(r.pc),
                                      !.exc = IF esc /\ AfterEscape(r.pc) = "exc_status"
                                              THEN "callback failed" ELSE None])

\* an executor that is at line 66 when 0.5 s go by
Late(r) == IF r.pc \in FanoutPcs THEN [r EXCEPT !.pc = Site(r.pc) \o "_late"] ELSE r

\* 0.5 s go by: the throttle window of the latest assignment to _last_notify is
\* over, and every current_time read before is 0.5 s old
Tick ==
    /\ notify_open' = TRUE
    /\ fanout' = [fanout EXCEPT !.recent = FALSE]
    /\ queue' = [queue EXCEPT !.stale = (queue.pc = "fanout")]
    /\ execs' = BagOfAll(Late, execs)
    /\ UNCHANGED <<tasks, rec, active_downloads, disp, cancel, clear, steamgrid,
                   metafile, metadata_json, starts, cancelled_queued, bound, iter>>

\* ------------------------------------------------------------ specification
\* the igdb_game arguments explored
Hints == {None}

Next ==
    \/ \E c \in ConsoleInputs, h \in Hints : QueueDownload("Zelda", c, "archive", h)
    \/ \E id \in Ids \cup {0} : CancelCheck(id)
    \/ CancelStatus
    \/ CancelError
    \/ DispCheck
    \/ DispScan
    \/ DispIncRead
    \/ DispIncWrite
    \/ DispStart
    \/ \E r \in Running, ok \in BOOLEAN : ExecBegin(r, ok)
    \/ \E r \in Running : ExecSetStatus(r)
    \/ \E r \in Running : ExecSetProgress(r)
    \/ \E r \in Running : ExecSetError(r)
    \/ \E r \in Running, ok \in BOOLEAN : ExecTransfer(r, ok)
    \/ \E r \in Running, ok \in BOOLEAN : ExecSaveMetadata(r, ok)
    \/ \E r \in Running, o \in ArtOutcomes : ExecArtwork(r, o)
    \/ \E r \in Running : ExecDecRead(r)
    \/ \E r \in Running : ExecDecWrite(r)
    \/ SettingsSaved

Spec == Init /\ [][Next]_vars

\* The worker pool alone: the dispatcher and the executors, with more tasks
\* and threads and no caller but queue_download.
InitPool ==
    /\ tasks = <<>>
    /\ rec = <<>>
    /\ active_downloads = 0
    /\ disp = [pc |-> "sleep", task |-> 0, tmp |-> 0]
    /\ execs = EmptyBag
    /\ cancel = [pc |-> "idle", id |-> 0, seen |-> None]
    /\ clear = [pc |-> "idle", to_remove |-> <<>>]
    /\ steamgrid = "absent"
    /\ notify_open = TRUE
    /\ metafile = <<>>
    /\ starts = <<>>
    /\ cancelled_queued = {}
    /\ bound = [tasks |-> PoolTasks, execs |-> PoolExec]
    /\ fanout = NoFanOut
    /\ queue = [pc |-> "idle", stale |-> FALSE]
    /\ iter = NoIter
    /\ metadata_json = <<>>

NextPool ==
    \/ \E h \in Hints : QueueDownload("Zelda", "nes", "archive", h)
    \/ DispCheck
    \/ DispScan
    \/ DispIncRead
    \/ DispIncWrite
    \/ DispStart
    \/ \E r \in Running : ExecBegin(r, TRUE)
    \/ \E r \in Running : ExecSetStatus(r)
    \/ \E r \in Running : ExecSetProgress(r)
    \/ \E r \in Running : ExecTransfer(r, TRUE)
    \/ \E r \in Running : ExecSaveMetadata(r, TRUE)
    \/ \E r \in Running : ExecDecRead(r)
    \/ \E r \in Running : ExecDecWrite(r)

SpecPool == InitPool /\ [][NextPool]_vars

\* The worker pool under fair scheduling: the dispatcher thread loops for ever
\* with a 0.5 s sleep, and every executor is a thread of its own whose
\* collaborators return, so each of them keeps taking steps.
InitLive ==
    /\ tasks = <<>>
    /\ rec = <<>>
    /\ active_downloads = 0
    /\ disp = [pc |-> "sleep", task |-> 0, tmp |-> 0]
    /\ execs = EmptyBag
    /\ cancel = [pc |-> "idle", id |-> 0, seen |-> None]
    /\ clear = [pc |-> "idle", to_remove |-> <<>>]
    /\ steamgrid = "absent"
    /\ notify_open = TRUE
    /\ metafile = <<>>
    /\ starts = <<>>
    /\ cancelled_queued = {}
    /\ bound = [tasks |-> LiveTasks, execs |-> LiveExec]
    /\ fanout = NoFanOut
    /\ queue = [pc |-> "idle", stale |-> FALSE]
    /\ iter = NoIter
    /\ metadata_json = <<>>

\* a step of the _worker_loop thread
DispatcherStep == DispCheck \/ DispScan \/ DispIncRead \/ DispIncWrite \/ DispStart

\* a step of some _process_download thread whose collaborators succeed
ExecutorStep ==
    \E r \in Running :
        \/ ExecBegin(r, TRUE)
        \/ ExecSetStatus(r)
        \/ ExecSetProgress(r)
        \/ ExecTransfer(r, TRUE)
        \/ ExecSaveMetadata(r, TRUE)
        \/ ExecDecRead(r)
        \/ ExecDecWrite(r)

SpecLive ==
    /\ InitLive /\ [][NextPool]_vars
    /\ WF_vars(DispatcherStep)
    /\ WF_vars(ExecutorStep)

\* clear_completed called while the pipeline runs and cancel_download is used.
InitClear ==
    /\ tasks = <<>>
    /\ rec = <<>>
    /\ active_downloads = 0
    /\ disp = [pc |-> "sleep", task |-> 0, tmp |-> 0]
    /\ execs = EmptyBag
    /\ cancel = [pc |-> "idle", id |-> 0, seen |-> None]
    /\ clear = [pc |-> "idle", to_remove |-> <<>>]
    /\ steamgrid = "absent"
    /\ notify_open = TRUE
    /\ metafile = <<>>
    /\ starts = <<>>
    /\ cancelled_queued = {}
    /\ bound = [tasks |-> ClearTasks, execs |-> ClearExec]
    /\ fanout = NoFanOut
    /\ queue = [pc |-> "idle", stale |-> FALSE]
    /\ iter = NoIter
    /\ metadata_json = <<>>

NextClear ==
    \/ \E h \in Hints : QueueDownload("Zelda", "nes", "archive", h)
    \/ \E id \in Ids : CancelCheck(id)
    \/ CancelStatus
    \/ CancelError
    \/ ClearScan
    \/ ClearDelete
    \/ DispatcherStep
    \/ ExecutorStep

SpecClear == InitClear /\ [][NextClear]_vars

\* The notifier: _notify_callbacks entered by the caller of queue_download and
\* by the executors, its comparison and its assignment being separate steps,
\* with observers that may raise and time going by.
InitNotify ==
    /\ tasks = <<>>
    /\ rec = <<>>
    /\ active_downloads = 0
    /\ disp = [pc |-> "sleep", task |-> 0, tmp |-> 0]
    /\ execs = EmptyBag
    /\ cancel = [pc |-> "idle", id |-> 0, seen |-> None]
    /\ clear = [pc |-> "idle", to_remove |-> <<>>]
    /\ steamgrid = "absent"
    /\ notify_open = TRUE
    /\ metafile = <<>>
    /\ starts = <<>>
    /\ cancelled_queued = {}
    /\ bound = [tasks |-> NotifyTasks, execs |-> NotifyExec]
    /\ fanout = NoFanOut
    /\ queue = [pc |-> "idle", stale |-> FALSE]
    /\ iter = NoIter
    /\ metadata_json = <<>>

\* a step of the thread that calls queue_download, once the record is stored
QueueNotifyStep ==
    \/ QueueNotifyCompare
    \/ \E raising \in SUBSET Observers : QueueNotifyFanOut(raising)

\* a step of some _process_download thread
ExecutorNotifyStep ==
    \E r \in Running :
        \/ ExecBegin(r, TRUE)
        \/ ExecSetStatus(r)
        \/ ExecWriteProgress(r)
        \/ ExecWriteError(r)
        \/ ExecNotifyCompare(r)
        \/ \E raising \in SUBSET Observers : ExecNotifyFanOut(r, raising)
        \/ \E ok \in BOOLEAN : ExecTransfer(r, ok)
        \/ ExecSaveMetadata(r, TRUE)
        \/ ExecDecRead(r)
        \/ ExecDecWrite(r)

NextNotify ==
    \/ \E h \in Hints : QueueInsert("Zelda", "nes", "archive", h)
    \/ QueueNotifyStep
    \/ DispatcherStep
    \/ ExecutorNotifyStep
    \/ Tick

SpecNotify == InitNotify /\ [][NextNotify]_vars

\* the same under fair scheduling: every thread keeps taking steps and time
\* keeps going by
SpecNotifyFair ==
    /\ SpecNotify
    /\ WF_vars(QueueNotifyStep)
    /\ WF_vars(DispatcherStep)
    /\ WF_vars(ExecutorNotifyStep)
    /\ WF_vars(Tick)

\* queue_download called with every combination of its arguments while the
\* pipeline runs.
GameNames == {"Zelda", "Metroid"}

Sources == {"archive", "mirror"}

HintInputs == {None, "igdb"}

InitQueue ==
    /\ tasks = <<>>
    /\ rec = <<>>
    /\ active_downloads = 0
    /\ disp = [pc |-> "sleep", task |-> 0, tmp |-> 0]
    /\ execs = EmptyBag
    /\ cancel = [pc |-> "idle", id |-> 0, seen |-> None]
    /\ clear = [pc |-> "idle", to_remove |-> <<>>]
    /\ steamgrid = "absent"
    /\ notify_open = TRUE
    /\ metafile = <<>>
    /\ starts = <<>>
    /\ cancelled_queued = {}
    /\ bound = [tasks |-> QueueTasks, execs |-> QueueExec]
    /\ fanout = NoFanOut
    /\ queue = [pc |-> "idle", stale |-> FALSE]
    /\ iter = NoIter
    /\ metadata_json = <<>>

NextQueue ==
    \/ \E g \in GameNames, c \in ConsoleInputs, src \in Sources, h \in HintInputs :
          QueueDownload(g, c, src, h)
    \/ DispatcherStep
    \/ ExecutorStep
    \/ \E r \in Running : ExecSetError(r)
    \/ ClearScan
    \/ ClearDelete

SpecQueue == InitQueue /\ [][NextQueue]_vars

\* The dispatcher's scan of the store taken step by step while queue_download
\* inserts records on the caller's thread.
InitScan ==
    /\ tasks = <<>>
    /\ rec = <<>>
    /\ active_downloads = 0
    /\ disp = [pc |-> "sleep", task |-> 0, tmp |-> 0]
    /\ execs = EmptyBag
    /\ cancel = [pc |-> "idle", id |-> 0, seen |-> None]
    /\ clear = [pc |-> "idle", to_remove |-> <<>>]
    /\ steamgrid = "absent"
    /\ notify_open = TRUE
    /\ metafile = <<>>
    /\ starts = <<>>
    /\ cancelled_queued = {}
    /\ bound = [tasks |-> ScanTasks, execs |-> ScanExec]
    /\ fanout = NoFanOut
    /\ queue = [pc |-> "idle", stale |-> FALSE]
    /\ iter = NoIter
    /\ metadata_json = <<>>

NextScan ==
    \/ \E h \in Hints : QueueDownload("Zelda", "nes", "archive", h)
    \/ DispCheck
    \/ DispIterStart
    \/ DispIterNext
    \/ DispIterTest
    \/ DispIncRead
    \/ DispIncWrite
    \/ DispStart
    \/ ExecutorStep

SpecScan == InitScan /\ [][NextScan]_vars

\* a step of the _worker_loop thread, its scan taken step by step
DispatcherScanStep ==
    \/ DispCheck
    \/ DispIterStart
    \/ DispIterNext
    \/ DispIterTest
    \/ DispIncRead
    \/ DispIncWrite
    \/ DispStart

\* the same under fair scheduling: the dispatcher thread takes its next step
\* as long as it has one, and so do the executors
SpecScanFair ==
    /\ SpecScan
    /\ WF_vars(DispatcherScanStep)
    /\ WF_vars(ExecutorStep)

\* Downloads for SWITCH, the console whose assets come as a zip to unpack,
\* beside downloads for a console whose asset is the final form.
SwitchInputs == {"switch", "nes"}

InitSwitch ==
    /\ tasks = <<>>
    /\ rec = <<>>
    /\ active_downloads = 0
    /\ disp = [pc |-> "sleep", task |-> 0, tmp |-> 0]
    /\ execs = EmptyBag
    /\ cancel = [pc |-> "idle", id |-> 0, seen |-> None]
    /\ clear = [pc |-> "idle", to_remove |-> <<>>]
    /\ steamgrid = "absent"
    /\ notify_open = TRUE
    /\ metafile = <<>>
    /\ starts = <<>>
    /\ cancelled_queued = {}
    /\ bound = [tasks |-> SwitchTasks, execs |-> SwitchExec]
    /\ fanout = NoFanOut
    /\ queue = [pc |-> "idle", stale |-> FALSE]
    /\ iter = NoIter
    /\ metadata_json = <<>>

NextSwitch ==
    \/ \E c \in SwitchInputs, h \in Hints : QueueDownload("Zelda", c, "archive", h)
    \/ DispatcherStep
    \/ \E r \in Running : ExecBegin(r, TRUE)
    \/ \E r \in Running : ExecSetStatus(r)
    \/ \E r \in Running : ExecSetProgress(r)
    \/ \E r \in Running : ExecSetError(r)
    \/ \E r \in Running, ok \in BOOLEAN : ExecTransfer(r, ok)
    \/ \E r \in Running : ExecSaveMetadata(r, TRUE)
    \/ \E r \in Running : ExecDecRead(r)
    \/ \E r \in Running : ExecDecWrite(r)

SpecSwitch == InitSwitch /\ [][NextSwitch]_vars

\* The metadata stage with every kind of catalog hint, metadata.save
\* succeeding or raising, and the artwork provider with or without a key.
MetaHints == {None, "igdb", "igdb_bare", "igdb_empty"}

InitMeta ==
    /\ tasks = <<>>
    /\ rec = <<>>
    /\ active_downloads = 0
    /\ disp = [pc |-> "sleep", task |-> 0, tmp |-> 0]
    /\ execs = EmptyBag
    /\ cancel = [pc |-> "idle", id |-> 0, seen |-> None]
    /\ clear = [pc |-> "idle", to_remove |-> <<>>]
    /\ steamgrid \in {"nokey", "key"}
    /\ notify_open = TRUE
    /\ metafile = <<>>
    /\ starts = <<>>
    /\ cancelled_queued = {}
    /\ bound = [tasks |-> MetaTasks, execs |-> MetaExec]
    /\ fanout = NoFanOut
    /\ queue = [pc |-> "idle", stale |-> FALSE]
    /\ iter = NoIter
    /\ metadata_json = <<>>

NextMeta ==
    \/ \E g \in GameNames, h \in MetaHints : QueueDownload(g, "nes", "archive", h)
    \/ DispatcherStep
    \/ \E r \in Running : ExecBegin(r, TRUE)
    \/ \E r \in Running : ExecSetStatus(r)
    \/ \E r \in Running : ExecSetProgress(r)
    \/ \E r \in Running : ExecSetError(r)
    \/ \E r \in Running : ExecTransfer(r, TRUE)
    \/ \E r \in Running, ok \in BOOLEAN : ExecSaveMetadata(r, ok)
    \/ \E r \in Running : ExecArtwork(r, "ok")
    \/ \E r \in Running : ExecDecRead(r)
    \/ \E r \in Running : ExecDecWrite(r)

SpecMeta == InitMeta /\ [][NextMeta]_vars

\* ------------------------------------------------------------------- claims
Terminal == {COMPLETE, FAILED}

\* the executor r took the step, and r2 is what it became
Moved(r) == CopiesIn(r, execs') < CopiesIn(r, execs)

Became(r2) == CopiesIn(r2, execs') > CopiesIn(r2, execs)

\* no cancel_download call has written to the task or is about to
NotCancelled(id) == rec[id].error # "cancelled by user" /\ cancel.id # id

\* C1: the number of executors started and not yet finished is at most
\* max_concurrent in every reachable state.
C1_RunningWithinCeiling == RunningCount <= max_concurrent

\* C2: at most one executor is running for any given task in every reachable
\* state.
C2_OneExecutorPerTask == \A id \in Ids : RunningFor(id) <= 1

\* C3: once a task's status is COMPLETE or FAILED, no later step changes its
\* status or its progress.
C3_TerminalIsFinal ==
    [][\A id \in Ids :
          rec[id].status \in Terminal =>
              /\ rec'[id].status = rec[id].status
              /\ rec'[id].progress = rec[id].progress]_vars

\* the statuses that may follow a status in the pipeline order of C4
Successors(st) ==
    CASE st = QUEUED -> {DOWNLOADING, FAILED}
      [] st = DOWNLOADING -> {EXTRACTING, METADATA, FAILED}
      [] st = EXTRACTING -> {METADATA, FAILED}
      [] st = METADATA -> {ARTWORK, FAILED}
      [] st = ARTWORK -> {COMPLETE, FAILED}
      [] st = COMPLETE -> {FAILED}
      [] st = FAILED -> {}

\* C4: the distinct statuses a task takes are a prefix of QUEUED, DOWNLOADING,
\* (EXTRACTING), METADATA, ARTWORK, COMPLETE, or such a prefix followed by
\* FAILED: every change of status goes to the next stage or to FAILED.
C4_StageOrder ==
    [][\A id \in Ids :
          rec'[id].status # rec[id].status =>
              rec'[id].status \in Successors(rec[id].status)]_vars

ProgressMarkers == {0, 2, 4, 6, 8, 10}

\* C5: no step lowers a task's progress, and progress is always one of the
\* markers 0.0, 0.2, 0.4, 0.6, 0.8, 1.0.
C5_ProgressMonotone ==
    [][\A id \in Ids :
          /\ rec'[id].progress >= rec[id].progress
          /\ rec'[id].progress \in ProgressMarkers]_vars

\* C6: in every reachable state a task whose status is COMPLETE has progress 1.0.
C6_CompleteHasFullProgress ==
    \A id \in Ids : rec[id].status = COMPLETE => rec[id].progress = 10

\* C7: a cancel_download call that found the task COMPLETE or FAILED leaves its
\* status and error unchanged; one that found it non-terminal sets the status
\* to FAILED and the error to "cancelled by user".  (A call for an id that is
\* not in the store changes no variable at all.)
C7_CancelOnlyNonTerminal ==
    [][(cancel.pc # "idle" /\ cancel' # cancel) =>
          /\ cancel.seen \in Terminal =>
                /\ rec'[cancel.id].status = rec[cancel.id].status
                /\ rec'[cancel.id].error = rec[cancel.id].error
          /\ (cancel.seen \notin Terminal /\ cancel'.pc = "error") =>
                rec'[cancel.id].status = FAILED
          /\ (cancel.seen \notin Terminal /\ cancel'.pc = "idle") =>
                rec'[cancel.id].error = "cancelled by user"]_vars

\* C8: once cancel_download has returned for a task it found QUEUED, the task is
\* FAILED with error "cancelled by user" and progress 0.0, and the dispatcher
\* starts no executor for it.
C8_CancelQueuedIsFinal ==
    [][\A id \in cancelled_queued' :
          /\ rec'[id].status = FAILED
          /\ rec'[id].error = "cancelled by user"
          /\ rec'[id].progress = 0
          /\ id \in cancelled_queued => starts'[id] = starts[id]]_vars

\* C9: whatever the artwork stage meets (an exception, an empty result, a
\* failed asset download), the executor goes on to _update_task(COMPLETE, 1.0)
\* and never to the FAILED handler; and when the executor of a task that was
\* dispatched once and not cancelled finishes that call after the ARTWORK
\* stage, the task is COMPLETE with progress 1.0.
C9_ArtworkNeverFails ==
    [][\A r \in Running :
          /\ (r.pc = "art_fetch" /\ Moved(r)) => Became([r EXCEPT !.pc = "co_status"])
          /\ (/\ r.pc = "co_progress" /\ Moved(r)
              /\ rec[r.task].progress = 8
              /\ starts[r.task] = 1 /\ NotCancelled(r.task)) =>
                    /\ rec'[r.task].status = COMPLETE
                    /\ rec'[r.task].progress = 10
                    /\ rec'[r.task].error = None]_vars

\* an executor has run the artwork stage and is about to write COMPLETE
C9_Witness ==
    \E r \in Running :
        /\ r.pc = "co_progress"
        /\ rec[r.task].status = COMPLETE /\ rec[r.task].progress = 8
        /\ starts[r.task] = 1 /\ NotCancelled(r.task)

\* C10: an executor that finds the artwork provider absent or without an API
\* key after a successful metadata write goes straight to
\* _update_task(COMPLETE, 1.0), with no artwork stage and no provider call; and
\* when the executor of a task that was dispatched once and not cancelled
\* finishes that call with the ARTWORK stage skipped, the task is COMPLETE with
\* progress 1.0.
C10_NoKeySkipsArtwork ==
    [][\A r \in Running :
          /\ (r.pc = "md_save" /\ Moved(r) /\ steamgrid # "key") =>
                \/ Became([r EXCEPT !.pc = "co_status"])
                \/ Became([r EXCEPT !.pc = "exc_status", !.exc = "save failed"])
          /\ (/\ r.pc = "co_progress" /\ Moved(r)
              /\ rec[r.task].progress = 6
              /\ starts[r.task] = 1 /\ NotCancelled(r.task)) =>
                    /\ rec'[r.task].status = COMPLETE
                    /\ rec'[r.task].progress = 10
                    /\ rec'[r.task].error = None]_vars

\* an executor has skipped the artwork stage for want of a key and is about to
\* finish _update_task(COMPLETE, 1.0)
C10_Witness ==
    \E r \in Running :
        /\ r.pc = "co_progress"
        /\ steamgrid # "key"
        /\ rec[r.task].status = COMPLETE /\ rec[r.task].progress = 6
        /\ metafile[r.task] = 1
        /\ starts[r.task] = 1 /\ NotCancelled(r.task)

\* C11: when download_file has returned false for a task that is not cancelled
\* and the executor has written FAILED and "download failed", the task stays
\* FAILED with error "download failed" and progress 0.2, and no metadata file
\* is written for it: it never enters EXTRACTING, METADATA, ARTWORK or COMPLETE.
C11_DownloadFailedIsFinal ==
    \A id \in Ids :
        (rec[id].error = "download failed" /\ NotCancelled(id)) =>
            /\ rec[id].status = FAILED
            /\ rec[id].progress = 2
            /\ metafile[id] = 0

\* C12: under weak fairness of the dispatcher and of the executor steps, every
\* task enqueued for a registered console that needs no extraction, whose
\* collaborators all succeed and that is never cancelled, eventually is
\* COMPLETE with progress 1.0; and whenever a step sets a status to COMPLETE
\* the metadata file of the task has been written before.
C12_EnqueuedCompletes ==
    /\ \A id \in 1..LiveTasks :
          (id \in Ids) ~> (id \in Ids /\ rec[id].status = COMPLETE /\ rec[id].progress = 10)
    /\ [][\A id \in Ids :
            (rec[id].status # COMPLETE /\ rec'[id].status = COMPLETE) => metafile[id] >= 1]_vars

\* the last task enqueued is COMPLETE with progress 1.0, its metadata file written
C12_Witness ==
    /\ Cardinality(Ids) = LiveTasks
    /\ rec[LiveTasks].status = COMPLETE /\ rec[LiveTasks].progress = 10
    /\ metafile[LiveTasks] >= 1
    /\ execs = EmptyBag

\* C13: clear_completed removes a record from the store only if its status is
\* COMPLETE or FAILED at the moment of the deletion, and its steps change no
\* field of any record, also when executor steps and cancel_download come
\* between its scan of the store and its deletions.
C13_ClearRemovesOnlyTerminal ==
    [][/\ \A id \in Ids :
            (InStore(id) /\ ~InStore(id)') => rec[id].status \in Terminal
       /\ clear' # clear => rec' = rec]_vars

\* C14: clear_completed is idempotent: for the store of every reachable state,
\* two calls in a row with no other step between them leave the same store as
\* one call, and get_active_tasks returns the same list before the first call,
\* after the first and after the second.
C14_ClearIdempotent ==
    LET once == clear_completed(tasks)
        twice == clear_completed(once)
    IN  /\ twice = once
        /\ get_active_tasks(once) = get_active_tasks(tasks)
        /\ get_active_tasks(twice) = get_active_tasks(tasks)

\* a clear_completed call has removed a record and returned, and the store
\* holds a record that the next call will remove
C14_Witness ==
    /\ clear.pc = "idle"
    /\ \E id \in Ids : ~InStore(id)
    /\ ToRemove # <<>>

\* C15: after a task has reached COMPLETE or FAILED the observers are
\* eventually invoked by a fan-out that shows them that state, also when the
\* _notify_callbacks call of the transition falls inside the throttle window
\* and no mutation follows.
C15_TerminalIsDelivered ==
    \A id \in 1..NotifyTasks :
        (id \in Ids /\ rec[id].status \in Terminal) ~>
            (id \in DOMAIN fanout.statuses /\ fanout.statuses[id] \in Terminal)

\* some thread runs lines 66-71 in this step
FanOutStep ==
    /\ fanout'.recent
    /\ \/ queue.pc = "fanout" /\ queue'.pc # "fanout"
       \/ \E r \in Running : r.pc \in FanoutPcs \cup LatePcs /\ Moved(r)

\* C16: no fan-out starts less than the throttle interval after the start of
\* the fan-out before it, for every interleaving of the _notify_callbacks calls
\* of the caller thread and of the executors.
C16_FanOutsApart == [][FanOutStep => ~fanout.recent]_vars

\* C17: in every fan-out each subscribed observer is invoked whichever of them
\* raise, and the operation that called _notify_callbacks goes on as after a
\* normal return: queue_download returns, an executor takes its next statement,
\* and no field of any record changes.
C17_ObserversIsolated ==
    [][FanOutStep =>
          /\ fanout'.invoked = Observers
          /\ rec' = rec
          /\ queue.pc = "fanout" => queue'.pc \in {"idle", "fanout"}
          /\ \A r \in Running :
                (r.pc \in FanoutPcs \cup LatePcs /\ Moved(r)) =>
                    Became([r EXCEPT !.pc = AfterNotify(r.pc)])]_vars

\* the first observer raised in the latest fan-out, the second one was invoked
\* all the same, and the executor that called went on to download_file
C17_Witness ==
    /\ fanout.raised = {callbacks[1]}
    /\ callbacks[2] \in fanout.invoked
    /\ fanout.statuses = <<DOWNLOADING>>
    /\ \E r \in Running : r.pc = "download"

\* C18: executors are started in enqueue order: when the dispatcher starts an
\* executor for a task, every task enqueued before it that was never cancelled
\* has had an executor started for it earlier.
C18_StartsInEnqueueOrder ==
    [][\A b \in Ids :
          starts'[b] > starts[b] =>
              \A a \in Ids : (a < b /\ NotCancelled(a)) => starts[a] >= 1]_vars

\* an executor has been started for the second task after one for the first,
\* which was not cancelled
C18_Witness ==
    /\ Cardinality(Ids) >= 2
    /\ starts[1] >= 1 /\ starts[2] >= 1
    /\ NotCancelled(1)

\* C19: a queue_download call adds exactly one record, under an id that no
\* record had and that was not in the store, with status QUEUED, progress 0.0,
\* no error and the game_name, console, source and catalog hint it was given;
\* it changes no field of any other record, leaves active_downloads as it was
\* and starts no executor.
C19_QueueAddsOneRecord ==
    [][\A g \in GameNames, c \in ConsoleInputs, src \in Sources, h \in HintInputs :
          QueueDownload(g, c, src, h) =>
              \E id \in Ids' \ Ids :
                  /\ Ids' = Ids \cup {id}
                  /\ ~InStore(id) /\ InStore(id)'
                  /\ Len(tasks') = Len(tasks) + 1
                  /\ rec'[id] = [status |-> QUEUED, progress |-> 0, error |-> None,
                                 game_name |-> g, console |-> c, source |-> src,
                                 igdb_game |-> h]
                  /\ \A j \in Ids : rec'[j] = rec[j] /\ InStore(j)' = InStore(j)
                  /\ active_downloads' = active_downloads
                  /\ execs' = execs
                  /\ \A j \in Ids : starts'[j] = starts[j]
                  /\ starts'[id] = 0]_vars

\* a second record has been enqueued with a catalog hint while the executor of
\* the first, enqueued with other arguments, is at work
C19_Witness ==
    /\ Cardinality(Ids) = 2
    /\ rec[2].status = QUEUED /\ rec[2].igdb_game = "igdb" /\ rec[2].game_name = "Metroid"
    /\ rec[1].game_name = "Zelda" /\ rec[1].status = METADATA
    /\ \E r \in Running : r.task = 1 /\ r.pc = "md_save"
    /\ active_downloads = 1

\* C20: the dispatcher loop never stops: whatever queue_download does on
\* another thread during the dispatcher's scan of the store, the scan ends
\* without an error and the dispatcher goes on ticking.
C20_DispatcherKeepsTicking == disp.pc # "dead"

\* C21: in every reachable state a task's error is set only if its status is
\* FAILED: a task that is QUEUED, DOWNLOADING, EXTRACTING, METADATA, ARTWORK or
\* COMPLETE has no error, however cancel_download and a running executor
\* interleave.
C21_ErrorOnlyWhenFailed ==
    \A id \in Ids : rec[id].error # None => rec[id].status = FAILED

\* the directory the executor r creates and writes into, if it gets that far
DestOf(r) == game_dir(rec[r.task].console, rec[r.task].game_name)

\* C22: no two executors that write to the same game directory (same console
\* and same slug of game_name) are running at the same time, also when
\* queue_download was called twice for the same game and console before the
\* first task finished.
C22_OneExecutorPerDirectory ==
    \A r1, r2 \in Running :
        (get_console_metadata(rec[r1.task].console) # None /\ DestOf(r1) = DestOf(r2)) =>
            r1 = r2 /\ CopiesIn(r1, execs) = 1

\* C23: a task for console SWITCH whose download succeeded enters EXTRACTING
\* with progress 0.4 after DOWNLOADING and before METADATA: its status leaves
\* DOWNLOADING for EXTRACTING or FAILED only, and progress is 0.4 once the
\* _update_task call is over; a task for any other console is never EXTRACTING.
C23_SwitchExtracts ==
    [][\A id \in Ids :
          /\ (/\ Upper(rec[id].console) = "SWITCH"
              /\ rec[id].status = DOWNLOADING /\ rec'[id].status # DOWNLOADING) =>
                    rec'[id].status \in {EXTRACTING, FAILED}
          /\ (\E r \in Running : r.task = id /\ r.pc = "ex_progress" /\ Moved(r)) =>
                    rec'[id].status = EXTRACTING /\ rec'[id].progress = 4
          /\ Upper(rec[id].console) # "SWITCH" => rec'[id].status # EXTRACTING]_vars

\* the last statement of each way out of the try block
ExitPcs == ErrorPcs \cup {"co_progress"}

\* C24: every started executor decrements active_downloads exactly once, as
\* its last step, on each of its exit paths (COMPLETE, the three FAILED
\* returns, an exception in any stage): every way out of the try block leads
\* to the decrement, the decrement stores one less than the value it read and
\* ends the thread, no executor ends in another way, and no other step of an
\* executor writes the counter.
C24_DecrementOnEveryExit ==
    [][/\ \A r \in Running :
            /\ (r.pc \in ExitPcs /\ Moved(r)) =>
                  Became([r EXCEPT !.pc = "dec_read", !.exc = None])
            /\ (r.pc = "dec_read" /\ Moved(r)) =>
                  /\ Became([r EXCEPT !.pc = "dec_write", !.tmp = active_downloads])
                  /\ active_downloads' = active_downloads
            /\ (r.pc = "dec_write" /\ Moved(r)) =>
                  /\ active_downloads' = r.tmp - 1
                  /\ RunningCount' = RunningCount - 1
       /\ RunningCount' < RunningCount =>
            \E r \in Running : r.pc = "dec_write" /\ Moved(r)
       /\ active_downloads' # active_downloads =>
            \/ disp.pc = "inc_write" /\ disp'.pc # "inc_write"
            \/ \E r \in Running : r.pc = "dec_write" /\ Moved(r)]_vars

\* the only executor started has left through the exception handler and its
\* decrement has brought the counter back to 0
C24_Witness ==
    /\ \E id \in Ids : rec[id].error = "save failed" /\ starts[id] = 1
    /\ \A id \in Ids : starts[id] <= 1
    /\ Cardinality({id \in Ids : starts[id] = 1}) = 1
    /\ execs = EmptyBag
    /\ disp.pc = "sleep"
    /\ active_downloads = 0

\* str(e) for the exceptions the collaborators raise
ExceptionMessages == {"mkdir failed", "save failed"}

\* the progress marker reached when each of them is raised
MarkerAt(message) == IF message = "mkdir failed" THEN 0 ELSE 6

\* C25: when an exception raised in a stage of the executor (directory
\* creation, metadata.save) has been caught and the handler has written its
\* message to a task that is not cancelled, the task is FAILED, its progress
\* is the last marker reached before the exception, and no later stage is
\* entered: no metadata file is written and the status stays FAILED.
C25_ExceptionBecomesFailed ==
    \A id \in Ids :
        (rec[id].error \in ExceptionMessages /\ NotCancelled(id)) =>
            /\ rec[id].status = FAILED
            /\ rec[id].progress = MarkerAt(rec[id].error)
            /\ metafile[id] = 0

\* the record the claim describes for a task: the placeholder when the hint is
\* absent, the hint's id, title, publisher and year otherwise, "unknown" and 0
\* standing in for a publisher or year the hint leaves empty
Described(task) ==
    LET h == task.igdb_game IN
    [code |-> "nes-" \o (IF task.game_name = "Zelda" THEN "zelda" ELSE "metroid"),
     console |-> "NES", region |-> "NA",
     id |-> CASE h = None -> 0 [] h = "igdb" -> 1025
              [] h = "igdb_bare" -> 1026 [] h = "igdb_empty" -> 1027,
     title |-> CASE h = None -> task.game_name [] h = "igdb" -> "The Legend of Zelda"
                 [] h = "igdb_bare" -> "Zelda II" [] h = "igdb_empty" -> "Zelda III",
     publisher |-> IF h = "igdb" THEN "Nintendo" ELSE "unknown",
     year |-> IF h = "igdb" THEN 1986 ELSE 0]

\* the statements of an executor that come after the metadata stage
PastMetadata == {"art_status", "art_progress", "art_fetch", "co_status", "co_progress"}

\* C26: the METADATA stage never fails a task because its catalog hint is
\* missing.  With or without a hint, an executor that leaves the stage by
\* anything but an exception of metadata.save has written one record, the one
\* the claim describes, and goes on to ARTWORK or COMPLETE; the only way from
\* the stage to the FAILED handler is that exception, which writes nothing;
\* and while the executor of a task that was dispatched once is past the
\* stage, exactly one record has been written for the task.
C26_MetadataAlwaysWritten ==
    [][\A r \in Running :
          /\ (r.pc = "md_save" /\ Moved(r)) =>
                \/ /\ metadata_json'[r.task] =
                          Append(metadata_json[r.task], Described(rec[r.task]))
                   /\ \/ Became([r EXCEPT !.pc = "art_status"])
                      \/ Became([r EXCEPT !.pc = "co_status"])
                \/ /\ metadata_json' = metadata_json
                   /\ Became([r EXCEPT !.pc = "exc_status", !.exc = "save failed"])
          /\ (r.pc # "md_save" /\ Moved(r)) => metadata_json'[r.task] = metadata_json[r.task]
          /\ (r.pc \in PastMetadata /\ starts[r.task] = 1) =>
                metadata_json[r.task] = <<Described(rec[r.task])>>]_vars

\* a task enqueued with a hint that has neither publisher nor year is past the
\* metadata stage, its record written with "unknown" and 0
C26_Witness ==
    \E r \in Running :
        /\ r.pc = "co_status"
        /\ rec[r.task].igdb_game = "igdb_bare"
        /\ rec[r.task].status = METADATA
        /\ starts[r.task] = 1
        /\ Len(metadata_json[r.task]) = 1
        /\ metadata_json[r.task][1].publisher = "unknown"
        /\ metadata_json[r.task][1].year = 0
        /\ metadata_json[r.task][1].id = 1026

\* the executors the counter has been incremented for: those running, and the
\* one the dispatcher is about to start at lines 150-153
Accounted == RunningCount + (IF disp.pc = "start" THEN 1 ELSE 0)

\* C27: in every reachable state active_downloads equals the number of
\* executors that have been started and have not yet executed their final
\* decrement (counting the one the dispatcher has incremented for and is about
\* to start), so it is never negative and is 0 whenever no executor is running.
C27_CounterIsRunningCount ==
    /\ active_downloads = Accounted
    /\ active_downloads >= 0
    /\ Accounted = 0 => active_downloads = 0

\* C28: under weak fairness of the dispatcher and of the executor steps, with
\* collaborators that return, every task that is enqueued eventually is
\* COMPLETE or FAILED: no QUEUED task waits for ever while fewer than
\* max_concurrent executors are running.
C28_EnqueuedTerminates ==
    \A id \in 1..ScanTasks : (id \in Ids) ~> (id \in Ids /\ rec[id].status \in Terminal)

\* C29: clear_completed never removes from the store a task for which an
\* executor is still running: every running executor works on a record that
\* get_task and get_all_tasks still return, also after cancel_download has
\* marked the running task FAILED and clear_completed has been called.
C29_RunningStaysInStore == \A r \in Running : InStore(r.task)

\* the statements of lines 162-169 and the finally clause
NotFoundPath == {"begin", "nf_status", "nf_error", "dec_read", "dec_write"}

\* C30: a dispatched task whose console code is not in the registry goes from
\* QUEUED directly to FAILED with progress 0.0 and, unless cancel_download
\* writes its own, the error "console not found": it is never DOWNLOADING, its
\* executor never reaches the mkdir calls, download_file or the metadata
\* write, and the executor goes from the error write to the decrement of
\* active_downloads, with which it ends.
C30_UnknownConsoleFails ==
    [][\A id \in Ids :
          get_console_metadata(rec[id].console) = None =>
              /\ rec'[id].status \in {QUEUED, FAILED}
              /\ rec'[id].status # rec[id].status => rec[id].status = QUEUED
              /\ rec'[id].progress = 0
              /\ rec'[id].error \in {None, "console not found", "cancelled by user"}
              /\ metafile'[id] = 0 /\ metadata_json'[id] = <<>>
              /\ \A r \in Running : r.task = id =>
                    /\ r.pc \in NotFoundPath
                    /\ (r.pc = "begin" /\ Moved(r)) => Became([r EXCEPT !.pc = "nf_status"])
                    /\ (r.pc = "nf_status" /\ Moved(r)) => rec'[id].status = FAILED
                    /\ (r.pc = "nf_error" /\ Moved(r)) =>
                          /\ Became([r EXCEPT !.pc = "dec_read"])
                          /\ rec'[id].error = "console not found"
                          /\ NotCancelled(id) => rec'[id].status = FAILED
                    /\ (r.pc = "dec_write" /\ Moved(r)) =>
                          /\ active_downloads' = r.tmp - 1
                          /\ RunningCount' = RunningCount - 1]_vars

\* the task for the unknown console, dispatched once, is FAILED with "console
\* not found", its executor has ended and the counter is back at 0
C30_Witness ==
    \E id \in Ids :
        /\ rec[id].console = "XX"
        /\ rec[id].status = FAILED /\ rec[id].error = "console not found"
        /\ rec[id].progress = 0
        /\ starts[id] = 1
        /\ execs = EmptyBag /\ disp.pc = "sleep"
        /\ active_downloads = 0

====
